---- MODULE Spec2Model ----
(***************************************************************************)
(* A model of the ERS client of cream.py (class ERS): one method call at a *)
(* time against an appliance whose replies are chosen nondeterministically.*)
(*                                                                         *)
(* A Python string is modelled as a sequence of text chunks, so that       *)
(* '{0} not found'.format(key) is the concatenation key \o <<" not found">>*)
(* and a MAC address is the sequence of its characters.                    *)
(***************************************************************************)
EXTENDS Integers, Sequences, FiniteSets, TLC

VARIABLES pc, method, args, requests, replies, result, raised, raisedValue,
          tool, group

\* The state of the client and of the call in progress.
ersVars ==
    <<pc, method, args, requests, replies, result, raised, raisedValue>>

\* tool is the state of the script tools/get-endpoints-in-group.py and
\* group the endpoint group of the appliance that it lists.
vars ==
    <<pc, method, args, requests, replies, result, raised, raisedValue,
      tool, group>>

(***************************************************************************)
(* Bounds of the model.                                                    *)
(***************************************************************************)
MaxTotal == 2
MaxRes == 2
MaxPage == 2

(***************************************************************************)
(* Program constants.                                                      *)
(***************************************************************************)
PageSize == 100
ManyThreshold == 100
NotFoundCode == 404
OK == 200
Created == 201
NoContent == 204

(***************************************************************************)
(* Strings.                                                                *)
(***************************************************************************)
EmptyStr == <<>>

Format1(key, suffix) == key \o <<suffix>>

NotFoundMsg(key) == Format1(key, " not found")
AddedMsg(key) == Format1(key, " Added Successfully")
DeletedMsg(key) == Format1(key, " Deleted Successfully")
UnknownErrorMsg == <<"Unknown error">>
InvalidMacMsg(mac) == Format1(mac, ". Must be in the form of AA:BB:CC:00:11:22")

(***************************************************************************)
(* _mac_test: re.search(r'([0-9A-F]{2}[:]){5}([0-9A-F]){2}', mac.upper()). *)
(***************************************************************************)
LowerLetters == <<"a", "b", "c", "d", "e", "f", "g", "x">>
UpperLetters == <<"A", "B", "C", "D", "E", "F", "G", "X">>

UpperChar(c) ==
    IF \E i \in 1..Len(LowerLetters) : LowerLetters[i] = c
    THEN UpperLetters[CHOOSE i \in 1..Len(LowerLetters) : LowerLetters[i] = c]
    ELSE c

upper(s) == [i \in 1..Len(s) |-> UpperChar(s[i])]

HexUpper == {"0", "1", "2", "3", "4", "5", "6", "7", "8", "9",
             "A", "B", "C", "D", "E", "F"}

\* The pattern matched at offset i of s: five groups "hex hex :" and then
\* two hex digits, 17 characters in all.
MatchAt(s, i) ==
    /\ i >= 1
    /\ i + 16 <= Len(s)
    /\ \A k \in 0..4 : /\ s[i + 3 * k] \in HexUpper
                       /\ s[i + 3 * k + 1] \in HexUpper
                       /\ s[i + 3 * k + 2] = ":"
    /\ s[i + 15] \in HexUpper
    /\ s[i + 16] \in HexUpper

\* re.search: a match at any offset.
SearchAnywhere(s) == \E i \in 1..Len(s) : MatchAt(s, i)

_mac_test(mac) == SearchAnywhere(upper(mac))

(***************************************************************************)
(* The methods of class ERS.  Each descriptor records what distinguishes   *)
(* the method's code from the others of its family:                        *)
(*   family    the shape of the method's body                              *)
(*   path      the resource collection under /config/                      *)
(*   filter    the field of the ?filter=<field>.EQ.<value> query, or ""    *)
(*   keyArg    which argument is the key: "key", "mac" or "none"           *)
(*   validates whether the method calls _mac_test first                    *)
(*   typeKey   the envelope key the method unwraps a resource from         *)
(*   items     the fields a list method collects from each resource        *)
(*   elseBody  what the resolve step's final else branch does              *)
(*   timeout   whether the mutating request passes timeout=self.timeout    *)
(***************************************************************************)
Descriptor(nm, fam, pth, flt, karg, val, tkey, its, els, tmo) ==
    [name |-> nm, family |-> fam, path |-> pth, filter |-> flt,
     keyArg |-> karg, validates |-> val, typeKey |-> tkey,
     items |-> its, elseBody |-> els, timeout |-> tmo]

get_endpoint_groups ==
    Descriptor("get_endpoint_groups", "list", "endpointgroup", "", "none",
               FALSE, "", <<"name", "id", "description">>, "", FALSE)

get_endpoint_group ==
    Descriptor("get_endpoint_group", "resolve_fetch", "endpointgroup", "name",
               "key", FALSE, "EndPointGroup", <<>>, "not_found", FALSE)

get_endpoints ==
    Descriptor("get_endpoints", "counted", "endpoint", "", "none",
               FALSE, "", <<"name", "id">>, "", FALSE)

get_endpoint ==
    Descriptor("get_endpoint", "resolve_fetch", "endpoint", "mac",
               "mac", TRUE, "ERSEndPoint", <<>>, "not_found", FALSE)

search_endpoints_by_group ==
    Descriptor("search_endpoints_by_group", "counted", "endpoint", "groupId",
               "key", FALSE, "", <<"name", "id">>, "", FALSE)

list_endpoints_in_group ==
    Descriptor("list_endpoints_in_group", "paged", "endpoint", "groupId",
               "key", FALSE, "", <<"name">>, "", FALSE)

add_endpoint ==
    Descriptor("add_endpoint", "add", "endpoint", "", "key",
               TRUE, "ERSEndPoint", <<>>, "", TRUE)

delete_endpoint ==
    Descriptor("delete_endpoint", "delete", "endpoint", "mac", "mac",
               FALSE, "", <<>>, "ers_title", TRUE)

get_identity_groups ==
    Descriptor("get_identity_groups", "list", "identitygroup", "", "none",
               FALSE, "", <<"name", "id", "description">>, "", FALSE)

get_identity_group ==
    Descriptor("get_identity_group", "resolve_fetch", "identitygroup", "name",
               "key", FALSE, "IdentityGroup", <<>>, "not_found", FALSE)

get_users ==
    Descriptor("get_users", "counted", "internaluser", "", "none",
               FALSE, "", <<"name", "id">>, "", FALSE)

get_user ==
    Descriptor("get_user", "resolve_fetch", "internaluser", "name",
               "key", FALSE, "InternalUser", <<>>, "unknown_error", FALSE)

add_user ==
    Descriptor("add_user", "add", "internaluser", "", "key",
               FALSE, "InternalUser", <<>>, "", TRUE)

delete_user ==
    Descriptor("delete_user", "delete", "internaluser", "name", "key",
               FALSE, "", <<>>, "ers_title", TRUE)

get_device_groups ==
    Descriptor("get_device_groups", "list", "networkdevicegroup", "", "none",
               FALSE, "", <<"name", "id">>, "", FALSE)

get_device_group ==
    Descriptor("get_device_group", "fetch", "networkdevicegroup", "", "key",
               FALSE, "NetworkDeviceGroup", <<>>, "", FALSE)

get_devices ==
    Descriptor("get_devices", "counted", "networkdevice", "", "none",
               FALSE, "", <<"name", "id">>, "", FALSE)

get_device ==
    Descriptor("get_device", "resolve_fetch", "networkdevice", "name",
               "key", FALSE, "NetworkDevice", <<>>, "ers_title", FALSE)

add_device ==
    Descriptor("add_device", "add", "networkdevice", "", "key",
               FALSE, "NetworkDevice", <<>>, "", TRUE)

delete_device ==
    Descriptor("delete_device", "delete", "networkdevice", "name", "key",
               FALSE, "", <<>>, "ers_title", TRUE)

Methods ==
    {get_endpoint_groups, get_endpoint_group, get_endpoints, get_endpoint,
     search_endpoints_by_group, list_endpoints_in_group, add_endpoint,
     delete_endpoint, get_identity_groups, get_identity_group, get_users,
     get_user, add_user, delete_user, get_device_groups, get_device_group,
     get_devices, get_device, add_device, delete_device}

NoMethod ==
    Descriptor("", "", "", "", "none", FALSE, "", <<>>, "", FALSE)

(***************************************************************************)
(* Arguments of a call.  key is the name, user id, device name, group name *)
(* or group id; mac is the MAC address of the MAC-keyed methods; page is   *)
(* the page of list_endpoints_in_group.                                    *)
(***************************************************************************)
Names == {<<"alice">>, <<"sw1">>}

ValidMac ==
    <<"A", "A", ":", "B", "B", ":", "C", "C", ":", "0", "0", ":",
      "1", "1", ":", "2", "2">>
LowerMac ==
    <<"a", "a", ":", "b", "b", ":", "c", "c", ":", "0", "0", ":",
      "1", "1", ":", "2", "2">>
DashMac ==
    <<"A", "A", "-", "B", "B", "-", "C", "C", "-", "0", "0", "-",
      "1", "1", "-", "2", "2">>
ShortMac ==
    <<"A", "A", ":", "B", "B", ":", "C", "C", ":", "0", "0", ":", "1", "1">>
NonHexMac ==
    <<"G", "G", ":", "B", "B", ":", "C", "C", ":", "0", "0", ":",
      "1", "1", ":", "2", "2">>
PaddedMac == <<"x">> \o ValidMac \o <<"x">>

Macs == {ValidMac, LowerMac, DashMac, ShortMac, NonHexMac, PaddedMac, EmptyStr}

Args(key, mac, page) == [key |-> key, mac |-> mac, page |-> page]

NoArgs == Args(EmptyStr, EmptyStr, 1)

\* The argument values a caller may pass to method m.
ArgsOf(m) ==
    IF m.name = "add_endpoint"
    THEN {Args(k, c, 1) : k \in Names, c \in Macs}
    ELSE IF m.keyArg = "mac"
    THEN {Args(EmptyStr, c, 1) : c \in Macs}
    ELSE IF m.family = "paged"
    THEN {Args(k, EmptyStr, p) : k \in Names, p \in 1..MaxPage}
    ELSE IF m.keyArg = "key"
    THEN {Args(k, EmptyStr, 1) : k \in Names}
    ELSE {NoArgs}

\* The key a method's messages name: the MAC for the MAC-keyed lookups,
\* the name otherwise.
KeyOf(m, a) == IF m.keyArg = "mac" THEN a.mac ELSE a.key

(***************************************************************************)
(* Requests.                                                               *)
(***************************************************************************)
Request(verb, path, filter, value, id, size, page, timeout, mac) ==
    [verb |-> verb, path |-> path, filter |-> filter, value |-> value,
     id |-> id, size |-> size, page |-> page, timeout |-> timeout,
     mac |-> mac]

NoRequest == Request("", "", "", EmptyStr, EmptyStr, 0, 0, FALSE, EmptyStr)

\* self.ise.get('{0}/config/<path>[?filter=<field>.EQ.<value>]'): no timeout
\* argument is passed.
CollectionGet(m, a) ==
    Request("GET", m.path, m.filter,
            IF m.filter = "" THEN EmptyStr ELSE KeyOf(m, a),
            EmptyStr, 0, 0, FALSE,
            IF m.filter = "mac" THEN a.mac ELSE EmptyStr)

\* list_endpoints_in_group: ?size=100&filter=groupId.EQ.<id>&page=<page>.
PagedGet(m, a) ==
    Request("GET", m.path, m.filter, a.key, EmptyStr, PageSize, a.page,
            FALSE, EmptyStr)

\* A faulty variant of GetById: the request is sent with the DELETE verb.
GetById_Deletes(m, id) ==
    Request("DELETE", m.path, "", EmptyStr, id, 0, 0, FALSE, EmptyStr)

\* self.ise.get('{0}/config/<path>/{1}'.format(url_base, id)).
GetById(m, id) ==
    Request("GET", m.path, "", EmptyStr, id, 0, 0, FALSE, EmptyStr)

\* self.ise.post('{0}/config/<path>', data=json.dumps(data),
\* timeout=self.timeout).
Post(m, a) ==
    Request("POST", m.path, "", EmptyStr, EmptyStr, 0, 0, m.timeout,
            IF m.name = "add_endpoint" THEN a.mac ELSE EmptyStr)

\* self.ise.delete('{0}/config/<path>/{1}'.format(url_base, oid),
\* timeout=self.timeout).
DeleteById(m, id) ==
    Request("DELETE", m.path, "", EmptyStr, id, 0, 0, m.timeout, EmptyStr)

\* The first request of a call to m.
FirstRequest(m, a) ==
    CASE m.family = "add" -> Post(m, a)
      [] m.family = "paged" -> PagedGet(m, a)
      [] m.family = "fetch" -> GetById(m, a.key)
      [] OTHER -> CollectionGet(m, a)

(***************************************************************************)
(* Replies of the appliance.  A body is one JSON object with one top-level *)
(* key (top): "SearchResult" (total, resources, nextPage), a resource type *)
(* name (content), or "ERSResponse" (messages); top = "" is a body that is *)
(* not JSON (an empty body included).  transport is "ok" when a response   *)
(* arrived and else the exception the session raised.                      *)
(***************************************************************************)
Resource(n) ==
    [name |-> <<"name", n>>, id |-> <<"id", n>>,
     description |-> <<"description", n>>]

Resources == {Resource("1"), Resource("2")}

\* The sequences of at most n distinct resources.
ResourceLists(n) ==
    {<<>>} \cup
    UNION {{s \in [1..k -> Resources] :
               \A i, j \in 1..k : i # j => s[i] # s[j]} : k \in 1..n}

Totals == (0..MaxTotal) \cup {ManyThreshold + 1}

Titles == {<<"title A">>, <<"title B">>}

Contents == {"record A", "record B"}

TypeKeys == {"EndPointGroup", "IdentityGroup", "InternalUser",
             "NetworkDevice", "ERSEndPoint", "NetworkDeviceGroup"}

Body(top, total, resources, nextPage, content, messages) ==
    [top |-> top, total |-> total, resources |-> resources,
     nextPage |-> nextPage, content |-> content, messages |-> messages]

NotJson == Body("", 0, <<>>, FALSE, "", <<>>)

SearchResults ==
    {Body("SearchResult", t, r, n, "", <<>>) :
        t \in Totals, r \in ResourceLists(MaxRes), n \in BOOLEAN}

ResourceBodies ==
    {Body(k, 0, <<>>, FALSE, c, <<>>) : k \in TypeKeys, c \in Contents}

ErrorBodies ==
    {Body("ERSResponse", 0, <<>>, FALSE, "", <<t>>) : t \in Titles} \cup
    {Body("ERSResponse", 0, <<>>, FALSE, "", <<t, u>>) :
        t \in Titles, u \in Titles}

Envelopes == SearchResults \cup ResourceBodies \cup ErrorBodies

Statuses == {OK, Created, NoContent, NotFoundCode, 500}

Reply(transport, status, body) ==
    [transport |-> transport, status |-> status, body |-> body]

Replies ==
    {Reply("ok", s, b) : s \in Statuses, b \in Envelopes \cup {NotJson}} \cup
    {Reply(e, 0, NotJson) : e \in {"Timeout", "ConnectionError"}}

(***************************************************************************)
(* The result dictionary.  keys is the set of keys the dictionary holds;   *)
(* response is a string, a resource record or a list; error is the empty   *)
(* string '' or an integer code.                                           *)
(***************************************************************************)
StrResp(s) == [kind |-> "str", str |-> s, dict |-> "", list |-> <<>>]
DictResp(c) == [kind |-> "dict", str |-> EmptyStr, dict |-> c, list |-> <<>>]
ListResp(l) == [kind |-> "list", str |-> EmptyStr, dict |-> "", list |-> l]

ErrEmpty == [kind |-> "str", code |-> 0]
ErrCode(n) == [kind |-> "int", code |-> n]

Result(keys, success, response, error, total, next) ==
    [keys |-> keys, success |-> success, response |-> response,
     error |-> error, total |-> total, next |-> next]

BaseKeys == {"success", "response", "error"}

\* result = {'success': False, 'response': '', 'error': ''}
InitialResult == Result(BaseKeys, FALSE, StrResp(EmptyStr), ErrEmpty, 0, FALSE)

\* result['success'] = True; result['response'] = response
Success(response) ==
    [InitialResult EXCEPT !.success = TRUE, !.response = response]

\* A faulty variant of Failure: the error code is not stored.
Failure_NoError(message, code) ==
    [InitialResult EXCEPT !.response = StrResp(message)]

\* result['response'] = message; result['error'] = code
Failure(message, code) ==
    [InitialResult EXCEPT !.response = StrResp(message),
                          !.error = ErrCode(code)]

\* The multi-result branches of list_endpoints_in_group also set
\* result['total'] and result['next'].
PagedSuccess(response, total, next) ==
    [Success(response) EXCEPT !.keys = BaseKeys \cup {"total", "next"},
                              !.total = total, !.next = next]

(***************************************************************************)
(* What a step of a method does: return a result, raise an exception or    *)
(* send the second request.                                                *)
(***************************************************************************)
Return(res) == [act |-> "return", result |-> res, exc |-> "",
                req |-> NoRequest]
Raise(exc) == [act |-> "raise", result |-> InitialResult, exc |-> exc,
               req |-> NoRequest]
Send(req) == [act |-> "send", result |-> InitialResult, exc |-> "",
              req |-> req]

\* resp.json(): ValueError when the body is not JSON.
\* resp.json()[key]: KeyError when the body has no such top-level key.
JsonExc(r, key) ==
    IF r.body.top = "" THEN "ValueError"
    ELSE IF r.body.top # key THEN "KeyError"
    ELSE ""

\* resp.json()['ERSResponse']['messages'][0]['title']
TitleExc(r) ==
    IF JsonExc(r, "ERSResponse") # "" THEN JsonExc(r, "ERSResponse")
    ELSE IF r.body.messages = <<>> THEN "IndexError"
    ELSE ""

\* result['response'] = resp.json()['ERSResponse']['messages'][0]['title']
\* result['error'] = resp.status_code
FailWithTitle(r) ==
    IF TitleExc(r) # "" THEN Raise(TitleExc(r))
    ELSE Return(Failure(r.body.messages[1], r.status))

\* [(i[f1], i[f2], ...) for i in resources], in the order of the appliance.
Items(resources, fields) ==
    [i \in 1..Len(resources) |->
        [j \in 1..Len(fields) |-> resources[i][fields[j]]]]

\* [(resources[0][f1], resources[0][f2], ...)]
FirstItem(resources, fields) == Items(SubSeq(resources, 1, 1), fields)

(***************************************************************************)
(* get_endpoint_groups, get_identity_groups, get_device_groups: the status *)
(* is tested before the body is read.                                      *)
(***************************************************************************)
ListStep(m, r) ==
    IF r.status = OK
    THEN IF JsonExc(r, "SearchResult") # ""
         THEN Raise(JsonExc(r, "SearchResult"))
         ELSE Return(Success(ListResp(Items(r.body.resources, m.items))))
    ELSE FailWithTitle(r)

\* A faulty variant of CountedStep: an empty collection is treated as a
\* failure.
CountedStep_ZeroFails(m, r) ==
    IF JsonExc(r, "SearchResult") # ""
    THEN Raise(JsonExc(r, "SearchResult"))
    ELSE IF r.status = OK /\ r.body.total > 1
    THEN Return(Success(ListResp(Items(r.body.resources, m.items))))
    ELSE IF r.status = OK /\ r.body.total = 1
    THEN IF r.body.resources = <<>>
         THEN Raise("IndexError")
         ELSE Return(Success(ListResp(FirstItem(r.body.resources, m.items))))
    ELSE IF r.status = OK /\ r.body.total = 0
    THEN Return(Failure(<<"not found">>, NotFoundCode))
    ELSE FailWithTitle(r)

(***************************************************************************)
(* get_endpoints, get_users, get_devices, search_endpoints_by_group:       *)
(* json_res = resp.json()['SearchResult'] is read before the status is     *)
(* tested, and the counts are tried in the order > 1, == 1, == 0.          *)
(***************************************************************************)
CountedStep(m, r) ==
    IF JsonExc(r, "SearchResult") # ""
    THEN Raise(JsonExc(r, "SearchResult"))
    ELSE IF r.status = OK /\ r.body.total > 1
    THEN Return(Success(ListResp(Items(r.body.resources, m.items))))
    ELSE IF r.status = OK /\ r.body.total = 1
    THEN IF r.body.resources = <<>>
         THEN Raise("IndexError")
         ELSE Return(Success(ListResp(FirstItem(r.body.resources, m.items))))
    ELSE IF r.status = OK /\ r.body.total = 0
    THEN Return(Success(ListResp(<<>>)))
    ELSE FailWithTitle(r)

\* A faulty variant of PagedStep: the single-result branch also reports
\* total and next, as the multi-result branches do.
PagedStep_Symmetric(m, r) ==
    IF JsonExc(r, "SearchResult") # ""
    THEN Raise(JsonExc(r, "SearchResult"))
    ELSE IF r.status = OK /\ r.body.total > 1
    THEN Return(PagedSuccess(ListResp(Items(r.body.resources, m.items)),
                             r.body.total, r.body.nextPage))
    ELSE IF r.status = OK /\ r.body.total = 1
    THEN IF r.body.resources = <<>>
         THEN Raise("IndexError")
         ELSE Return(PagedSuccess(
                  ListResp(FirstItem(r.body.resources, m.items)),
                  r.body.total, r.body.nextPage))
    ELSE IF r.status = OK /\ r.body.total = 0
    THEN Return(Success(ListResp(<<>>)))
    ELSE FailWithTitle(r)

(***************************************************************************)
(* list_endpoints_in_group.                                                *)
(***************************************************************************)
PagedStep(m, r) ==
    IF JsonExc(r, "SearchResult") # ""
    THEN Raise(JsonExc(r, "SearchResult"))
    ELSE IF r.status = OK /\ r.body.total > ManyThreshold
    THEN Return(PagedSuccess(ListResp(Items(r.body.resources, m.items)),
                             r.body.total, r.body.nextPage))
    ELSE IF r.status = OK /\ r.body.total > 1
    THEN Return(PagedSuccess(ListResp(Items(r.body.resources, m.items)),
                             r.body.total, r.body.nextPage))
    ELSE IF r.status = OK /\ r.body.total = 1
    THEN IF r.body.resources = <<>>
         THEN Raise("IndexError")
         ELSE Return(Success(ListResp(FirstItem(r.body.resources, m.items))))
    ELSE IF r.status = OK /\ r.body.total = 0
    THEN Return(Success(ListResp(<<>>)))
    ELSE FailWithTitle(r)

(***************************************************************************)
(* The resolve step of the get-by-name, get-by-mac and delete methods: the *)
(* status of the search response is not tested.                            *)
(***************************************************************************)
ResolveElse(m, a, r) ==
    CASE m.elseBody = "not_found" ->
             Return(Failure(NotFoundMsg(KeyOf(m, a)), r.status))
      [] m.elseBody = "unknown_error" ->
             Return(Failure(UnknownErrorMsg, r.status))
      [] OTHER -> FailWithTitle(r)

\* A faulty variant of ResolveStep: no branch for total == 0, which falls
\* into the final else.
ResolveStep_NoZeroBranch(m, a, r) ==
    IF JsonExc(r, "SearchResult") # ""
    THEN Raise(JsonExc(r, "SearchResult"))
    ELSE IF r.body.total = 1
    THEN IF r.body.resources = <<>>
         THEN Raise("IndexError")
         ELSE IF m.family = "delete"
         THEN Send(DeleteById(m, r.body.resources[1].id))
         ELSE Send(GetById(m, r.body.resources[1].id))
    ELSE ResolveElse(m, a, r)

\* A faulty variant of ResolveStep: the second request is issued for any
\* total >= 1.
ResolveStep_AnyMatch(m, a, r) ==
    IF JsonExc(r, "SearchResult") # ""
    THEN Raise(JsonExc(r, "SearchResult"))
    ELSE IF r.body.total >= 1
    THEN IF r.body.resources = <<>>
         THEN Raise("IndexError")
         ELSE IF m.family = "delete"
         THEN Send(DeleteById(m, r.body.resources[1].id))
         ELSE Send(GetById(m, r.body.resources[1].id))
    ELSE IF r.body.total = 0
    THEN Return(Failure(NotFoundMsg(KeyOf(m, a)), NotFoundCode))
    ELSE ResolveElse(m, a, r)

ResolveStep(m, a, r) ==
    IF JsonExc(r, "SearchResult") # ""
    THEN Raise(JsonExc(r, "SearchResult"))
    ELSE IF r.body.total = 1
    THEN IF r.body.resources = <<>>
         THEN Raise("IndexError")
         ELSE IF m.family = "delete"
         THEN Send(DeleteById(m, r.body.resources[1].id))
         ELSE Send(GetById(m, r.body.resources[1].id))
    ELSE IF r.body.total = 0
    THEN Return(Failure(NotFoundMsg(KeyOf(m, a)), NotFoundCode))
    ELSE ResolveElse(m, a, r)

\* A faulty variant of FetchStep: no branch for 404, which is reported as
\* any other error status.
FetchStep_No404(m, a, r) ==
    IF r.status = OK
    THEN IF JsonExc(r, m.typeKey) # ""
         THEN Raise(JsonExc(r, m.typeKey))
         ELSE Return(Success(DictResp(r.body.content)))
    ELSE FailWithTitle(r)

\* The fetch by identifier: step 2 of resolve-then-fetch, and the whole of
\* get_device_group.
FetchStep(m, a, r) ==
    IF r.status = OK
    THEN IF JsonExc(r, m.typeKey) # ""
         THEN Raise(JsonExc(r, m.typeKey))
         ELSE Return(Success(DictResp(r.body.content)))
    ELSE IF r.status = NotFoundCode
    THEN Return(Failure(NotFoundMsg(KeyOf(m, a)), r.status))
    ELSE FailWithTitle(r)

\* A faulty variant of DeleteStep: success is tested against 200, not 204.
DeleteStep_Expects200(m, a, r) ==
    IF r.status = OK
    THEN Return(Success(StrResp(DeletedMsg(KeyOf(m, a)))))
    ELSE IF r.status = NotFoundCode
    THEN Return(Failure(NotFoundMsg(KeyOf(m, a)), r.status))
    ELSE FailWithTitle(r)

\* The status of the DELETE.
DeleteStep(m, a, r) ==
    IF r.status = NoContent
    THEN Return(Success(StrResp(DeletedMsg(KeyOf(m, a)))))
    ELSE IF r.status = NotFoundCode
    THEN Return(Failure(NotFoundMsg(KeyOf(m, a)), r.status))
    ELSE FailWithTitle(r)

\* A faulty variant of AddStep: the failure reports the not-found code, not
\* the status of the response.
AddStep_WrongCode(m, a, r) ==
    IF r.status = Created
    THEN Return(Success(StrResp(AddedMsg(a.key))))
    ELSE IF TitleExc(r) # "" THEN Raise(TitleExc(r))
    ELSE Return(Failure(r.body.messages[1], NotFoundCode))

\* The status of the POST.
AddStep(m, a, r) ==
    IF r.status = Created
    THEN Return(Success(StrResp(AddedMsg(a.key))))
    ELSE FailWithTitle(r)

\* A faulty variant of OnReply: the two-step methods run their resolve
\* step on every reply, the reply of the second request included.
OnReply_ResolveAgain(m, a, n, r) ==
    IF r.transport # "ok" THEN Raise(r.transport)
    ELSE CASE m.family = "list" -> ListStep(m, r)
           [] m.family = "counted" -> CountedStep(m, r)
           [] m.family = "paged" -> PagedStep(m, r)
           [] m.family = "fetch" -> FetchStep(m, a, r)
           [] m.family = "add" -> AddStep(m, a, r)
           [] m.family = "resolve_fetch" -> ResolveStep(m, a, r)
           [] m.family = "delete" -> ResolveStep(m, a, r)

\* What method m does with reply r to its n-th request.
OnReply(m, a, n, r) ==
    IF r.transport # "ok" THEN Raise(r.transport)
    ELSE CASE m.family = "list" -> ListStep(m, r)
           [] m.family = "counted" -> CountedStep(m, r)
           [] m.family = "paged" -> PagedStep(m, r)
           [] m.family = "fetch" -> FetchStep(m, a, r)
           [] m.family = "add" -> AddStep(m, a, r)
           [] m.family = "resolve_fetch" ->
                  IF n = 1 THEN ResolveStep(m, a, r) ELSE FetchStep(m, a, r)
           [] m.family = "delete" ->
                  IF n = 1 THEN ResolveStep(m, a, r) ELSE DeleteStep(m, a, r)

(***************************************************************************)
(* The state machine.                                                      *)
(***************************************************************************)
\* The script is not running.
ToolOff ==
    [pc |-> "off", done |-> 0, page |-> 1, asked |-> <<>>,
     res |-> InitialResult, exc |-> ""]

NoGroup == [id |-> EmptyStr, total |-> 0]

\* ERS.__init__ issues no request.
ClientInit ==
    /\ pc = "idle"
    /\ method = NoMethod
    /\ args = NoArgs
    /\ requests = <<>>
    /\ replies = <<>>
    /\ result = InitialResult
    /\ raised = ""
    /\ raisedValue = EmptyStr

Init ==
    /\ ClientInit
    /\ tool = ToolOff
    /\ group = NoGroup

\* A caller invokes method m with arguments a: the MAC-validating methods
\* raise InvalidMacAddress before anything else, the others issue their
\* first request.
Call(m, a) ==
    /\ pc = "idle"
    /\ method' = m
    /\ args' = a
    /\ replies' = <<>>
    /\ result' = InitialResult
    /\ IF m.validates /\ ~_mac_test(a.mac)
       THEN /\ raised' = "InvalidMacAddress"
            /\ raisedValue' = InvalidMacMsg(a.mac)
            /\ requests' = <<>>
            /\ pc' = "done"
       ELSE /\ raised' = ""
            /\ raisedValue' = EmptyStr
            /\ requests' = <<FirstRequest(m, a)>>
            /\ pc' = "wait"

\* The pending request is answered by r and the method runs on to its
\* return, to an exception or to its second request.  Only a request that
\* was given a timeout can end with the Timeout exception.
Receive(r) ==
    /\ pc = "wait"
    /\ r.transport = "Timeout" => requests[Len(requests)].timeout
    /\ LET step == OnReply(method, args, Len(requests), r) IN
         /\ replies' = Append(replies, r)
         /\ result' = step.result
         /\ raised' = step.exc
         /\ requests' = IF step.act = "send"
                        THEN Append(requests, step.req)
                        ELSE requests
         /\ pc' = IF step.act = "send" THEN "wait" ELSE "done"
    /\ UNCHANGED <<method, args, raisedValue>>

\* The call is over; the client is ready for the next one.
Finish ==
    /\ pc = "done"
    /\ pc' = "idle"
    /\ method' = NoMethod
    /\ args' = NoArgs
    /\ requests' = <<>>
    /\ replies' = <<>>
    /\ result' = InitialResult
    /\ raised' = ""
    /\ raisedValue' = EmptyStr

Next ==
    \/ \E m \in Methods : \E a \in ArgsOf(m) :
          Call(m, a) /\ UNCHANGED <<tool, group>>
    \/ \E r \in Replies : Receive(r) /\ UNCHANGED <<tool, group>>
    \/ Finish /\ UNCHANGED <<tool, group>>

Spec == Init /\ [][Next]_vars

(***************************************************************************)
(* tools/get-endpoints-in-group.py: the loop that lists the members of an  *)
(* endpoint group page by page, run against an appliance that holds a      *)
(* group of group.total members and serves it in pages of PageSize, with a *)
(* nextPage marker on every page but the last.                             *)
(***************************************************************************)
\* The sizes of the group: none, one, a few, and one member more than j
\* full pages.
GroupTotals == (0..MaxTotal) \cup {PageSize * j + 1 : j \in 1..MaxPage}

\* The number of pages of a group of n members (an empty group has one,
\* empty, page).
PagesOf(n) == IF n = 0 THEN 1 ELSE (n + PageSize - 1) \div PageSize

\* The number of members on page p of a group of n members.
OnPage(n, p) ==
    IF p > PagesOf(n) THEN 0
    ELSE IF p < PagesOf(n) THEN PageSize
    ELSE n - (p - 1) * PageSize

\* The answers of the appliance to the request for page p of group g: 200
\* and a collection envelope with the total of the group, resources of
\* that page (at most MaxRes of them are represented) and the nextPage
\* marker when a further page exists.
PageReplies(g, p) ==
    {Reply("ok", OK,
           Body("SearchResult", g.total, r, p < PagesOf(g.total), "", <<>>)) :
        r \in {l \in ResourceLists(MaxRes) :
                  /\ Len(l) <= OnPage(g.total, p)
                  /\ Len(l) = 0 <=> OnPage(g.total, p) = 0}}

\* done = 0; page = 1, with the group id that was looked up before.
ToolInit ==
    /\ ClientInit
    /\ group \in [id : Names, total : GroupTotals]
    /\ tool = [ToolOff EXCEPT !.pc = "loop"]

\* while done != 1: res = ise.list_endpoints_in_group(group_id, page)
ToolCall ==
    /\ tool.pc = "loop"
    /\ tool.done # 1
    /\ Call(list_endpoints_in_group, Args(group.id, EmptyStr, tool.page))
    /\ tool' = [tool EXCEPT !.pc = "calling",
                            !.asked = Append(@, tool.page)]
    /\ UNCHANGED group

\* The appliance answers the request of the call.
ToolReceive ==
    /\ tool.pc = "calling"
    /\ \E r \in PageReplies(group, tool.page) : Receive(r)
    /\ UNCHANGED <<tool, group>>

\* The call is over: an exception of the call ends the script; otherwise
\* the script prints res['response'] and reads res['next'], which raises
\* KeyError when the result has no such key, to go to the next page or to
\* set done.
ToolResume ==
    /\ tool.pc = "calling"
    /\ Finish
    /\ tool' =
          IF raised # ""
          THEN [tool EXCEPT !.pc = "crashed", !.exc = raised]
          ELSE IF "next" \notin result.keys
          THEN [tool EXCEPT !.pc = "crashed", !.exc = "KeyError",
                            !.res = result]
          ELSE IF result.next
          THEN [tool EXCEPT !.pc = "loop", !.res = result,
                            !.page = tool.page + 1]
          ELSE [tool EXCEPT !.pc = "loop", !.res = result, !.done = 1]
    /\ UNCHANGED group

\* After the loop: print('Total endpoints: ...'.format(res['total'], page)).
ToolExit ==
    /\ tool.pc = "loop"
    /\ tool.done = 1
    /\ tool' =
          IF "total" \notin tool.res.keys
          THEN [tool EXCEPT !.pc = "crashed", !.exc = "KeyError"]
          ELSE [tool EXCEPT !.pc = "finished"]
    /\ UNCHANGED <<ersVars, group>>

ToolNext ==
    \/ ToolCall
    \/ ToolReceive
    \/ ToolResume
    \/ ToolExit

ToolSpec == ToolInit /\ [][ToolNext]_vars

(***************************************************************************)
(* Vocabulary of the properties.                                           *)
(***************************************************************************)
\* The call has returned a result dictionary.
Returned == pc = "done" /\ raised = ""

\* The n-th reply of the call arrived and its body is a collection envelope.
SearchReply(n) ==
    /\ Len(replies) >= n
    /\ replies[n].transport = "ok"
    /\ replies[n].body.top = "SearchResult"

\* The n-th reply of the call arrived and its body is an error envelope.
ErrorReply(n) ==
    /\ Len(replies) >= n
    /\ replies[n].transport = "ok"
    /\ replies[n].body.top = "ERSResponse"

\* The result of a not-found failure for the key of the call.
IsNotFoundResult ==
    /\ Returned
    /\ result.success = FALSE
    /\ result.response = StrResp(KeyOf(method, args) \o <<" not found">>)
    /\ result.error = ErrCode(404)

\* The result of a failure that reports the first title of reply n and its
\* status code.
IsTitleFailure(n) ==
    /\ Returned
    /\ result.success = FALSE
    /\ result.response = StrResp(replies[n].body.messages[1])
    /\ result.error = ErrCode(replies[n].status)

\* The (name, id) pairs of the resources of reply n, in its order.
Pairs(n) ==
    [i \in 1..Len(replies[n].body.resources) |->
        <<replies[n].body.resources[i].name,
          replies[n].body.resources[i].id>>]

\* The names of the resources of reply n, in its order.
NamesOf(n) ==
    [i \in 1..Len(replies[n].body.resources) |->
        <<replies[n].body.resources[i].name>>]

IsListSuccess(items) ==
    /\ Returned
    /\ result.success = TRUE
    /\ result.response.kind = "list"
    /\ result.response.list = items
    /\ result.error = ErrEmpty

(***************************************************************************)
(* C1: every result dictionary a method returns has success true exactly   *)
(* when its error field is the empty string, and holds a response (a       *)
(* string, a record or a list).                                            *)
(***************************************************************************)
C1_ResultShape ==
    Returned =>
        /\ result.success <=> (result.error = ErrEmpty)
        /\ "response" \in result.keys
        /\ result.response.kind \in {"str", "dict", "list"}

\* A failure returned after the second request of a call.
C1_Witness ==
    /\ Returned
    /\ Len(replies) = 2
    /\ result.success = FALSE
    /\ result.error # ErrEmpty

(***************************************************************************)
(* C2: in a get-by-name or get-by-mac call, a resolve response with        *)
(* total == 0 ends the call with success false, error 404 and the message  *)
(* '<key> not found', and only the resolve request was issued.             *)
(***************************************************************************)
C2_ResolveZeroIsNotFound ==
    (/\ method.family = "resolve_fetch"
     /\ SearchReply(1)
     /\ replies[1].body.total = 0)
    => /\ IsNotFoundResult
       /\ Len(requests) = 1

\* get_endpoint with a valid MAC whose search matched nothing.
C2_Witness ==
    /\ method.name = "get_endpoint"
    /\ SearchReply(1)
    /\ replies[1].body.total = 0
    /\ pc = "done"

(***************************************************************************)
(* C3 (as claimed): in a get-by-name or get-by-mac call, a resolve         *)
(* response whose total is neither 0 nor 1 ends the call with the same     *)
(* not-found failure as total == 0 ('<key> not found', error 404) and only *)
(* the resolve request was issued.                                         *)
(***************************************************************************)
C3_AmbiguousIsNotFound ==
    (/\ method.family = "resolve_fetch"
     /\ SearchReply(1)
     /\ replies[1].body.total \notin {0, 1})
    => /\ IsNotFoundResult
       /\ Len(requests) = 1

(***************************************************************************)
(* C4 (as claimed): get_endpoint, add_endpoint and delete_endpoint called  *)
(* with a MAC that fails _mac_test raise InvalidMacAddress carrying the    *)
(* MAC and issue no request; no request carries a MAC that fails the test. *)
(***************************************************************************)
C4_MalformedMacRejected ==
    /\ (/\ method.name \in {"get_endpoint", "add_endpoint", "delete_endpoint"}
        /\ ~_mac_test(args.mac))
       => /\ pc = "done"
          /\ raised = "InvalidMacAddress"
          /\ SubSeq(raisedValue, 1, Len(args.mac)) = args.mac
          /\ requests = <<>>
    /\ \A i \in 1..Len(requests) :
          (requests[i].filter = "mac" \/ requests[i].mac # EmptyStr)
              => _mac_test(requests[i].mac)

(***************************************************************************)
(* C5 (as claimed): only MAC validation failures are raised; in particular *)
(* an error envelope with an error status (not 200, 201 or 204) that       *)
(* answers a resolve search or the GET of a counted list ends the call by  *)
(* returning a failure result, not by raising.                             *)
(***************************************************************************)
C5_OnlyValidationRaises ==
    (/\ method.family \in {"resolve_fetch", "delete", "counted", "paged"}
     /\ Len(replies) = 1
     /\ ErrorReply(1)
     /\ replies[1].status \notin {200, 201, 204})
    => /\ Returned
       /\ result.success = FALSE

(***************************************************************************)
(* C6 (as claimed): a list method whose request is answered with an error  *)
(* status (not 200, 201 or 204) and an error envelope returns success      *)
(* false, the first message title as response and the status code as       *)
(* error.                                                                  *)
(***************************************************************************)
C6_ListFailure ==
    (/\ method.family \in {"list", "counted", "paged"}
     /\ ErrorReply(1)
     /\ replies[1].status \notin {200, 201, 204})
    => IsTitleFailure(1)

(***************************************************************************)
(* C7: the second request of a get-by-name or get-by-mac call is issued    *)
(* only after a resolve response with total == 1, and its answer is mapped *)
(* by status: 200 with the resource envelope gives success with the        *)
(* unwrapped body, 404 gives '<key> not found' with error 404, any other   *)
(* status with an error envelope gives the first title and that status.    *)
(***************************************************************************)
C7_FetchMapping ==
    method.family = "resolve_fetch" =>
        /\ Len(requests) = 2 =>
              /\ SearchReply(1)
              /\ replies[1].body.total = 1
        /\ (Len(replies) = 2 /\ replies[2].transport = "ok") =>
              /\ (/\ replies[2].status = 200
                  /\ replies[2].body.top = method.typeKey)
                 => /\ Returned
                    /\ result.success = TRUE
                    /\ result.response.kind = "dict"
                    /\ result.response.dict = replies[2].body.content
                    /\ result.error = ErrEmpty
              /\ replies[2].status = 404 => IsNotFoundResult
              /\ (/\ replies[2].status \notin {200, 404}
                  /\ ErrorReply(2))
                 => IsTitleFailure(2)

\* A get-by-name call whose fetch by identifier was answered 200.
C7_Witness ==
    /\ method.family = "resolve_fetch"
    /\ Len(replies) = 2
    /\ replies[2].transport = "ok"
    /\ replies[2].status = 200
    /\ replies[2].body.top = method.typeKey
    /\ replies[2].body.content = "record B"
    /\ pc = "done"

(***************************************************************************)
(* C8: a counted list method answered 200 with a collection envelope       *)
(* returns success with the (name, id) pairs in the appliance's order: all *)
(* resources when total > 1, the first resource alone when total == 1 (and *)
(* there is a first resource), the empty list when total == 0.             *)
(***************************************************************************)
C8_CountedList ==
    (/\ method.family = "counted"
     /\ SearchReply(1)
     /\ replies[1].status = 200)
    => /\ replies[1].body.total > 1 => IsListSuccess(Pairs(1))
       /\ (replies[1].body.total = 1 /\ replies[1].body.resources # <<>>)
             => IsListSuccess(<<Pairs(1)[1]>>)
       /\ replies[1].body.total = 0 => IsListSuccess(<<>>)

\* A counted list whose reply reports no match, and one that returns two
\* resources in the order the appliance gave them.
C8_Witness ==
    /\ method.family = "counted"
    /\ SearchReply(1)
    /\ replies[1].status = 200
    /\ pc = "done"
    /\ \/ replies[1].body.total = 0 /\ replies[1].body.resources = <<>>
       \/ /\ replies[1].body.total = 2
          /\ replies[1].body.resources = <<Resource("2"), Resource("1")>>

(***************************************************************************)
(* C9: list_endpoints_in_group answered 200 with a collection envelope     *)
(* returns success; when total > 1 the response is the names, total is the *)
(* reported total and next is true exactly when the envelope has a         *)
(* nextPage marker; when total == 1 the response is the one name and the   *)
(* result has no total and no next key; when total == 0 the response is    *)
(* the empty list.                                                         *)
(***************************************************************************)
C9_PagedList ==
    (/\ method.family = "paged"
     /\ SearchReply(1)
     /\ replies[1].status = 200)
    => /\ replies[1].body.total > 1 =>
             /\ IsListSuccess(NamesOf(1))
             /\ {"total", "next"} \subseteq result.keys
             /\ result.total = replies[1].body.total
             /\ result.next = replies[1].body.nextPage
       /\ (replies[1].body.total = 1 /\ replies[1].body.resources # <<>>) =>
             /\ IsListSuccess(<<NamesOf(1)[1]>>)
             /\ result.keys \cap {"total", "next"} = {}
       /\ replies[1].body.total = 0 => IsListSuccess(<<>>)

\* A page of a group of more than 100 members with a nextPage marker.
C9_Witness ==
    /\ method.family = "paged"
    /\ SearchReply(1)
    /\ replies[1].status = 200
    /\ replies[1].body.total > 100
    /\ replies[1].body.nextPage
    /\ replies[1].body.resources # <<>>
    /\ pc = "done"

(***************************************************************************)
(* C10: a delete method issues a DELETE only as its second request, after  *)
(* the resolve response of the same call reported total == 1, and to the   *)
(* identifier that response returned; a resolve response with total == 0   *)
(* ends the call with the 404 not-found failure and no DELETE.             *)
(***************************************************************************)
C10_DeleteAfterResolve ==
    method.family = "delete" =>
        /\ \A i \in 1..Len(requests) :
              requests[i].verb = "DELETE" =>
                  /\ i = 2
                  /\ SearchReply(1)
                  /\ replies[1].body.total = 1
                  /\ replies[1].body.resources # <<>>
                  /\ requests[i].path = requests[1].path
                  /\ requests[i].id = replies[1].body.resources[1].id
        /\ (SearchReply(1) /\ replies[1].body.total = 0) =>
              /\ IsNotFoundResult
              /\ \A i \in 1..Len(requests) : requests[i].verb # "DELETE"

\* A delete call that has issued its DELETE.
C10_Witness ==
    /\ method.family = "delete"
    /\ Len(requests) = 2
    /\ requests[2].verb = "DELETE"

(***************************************************************************)
(* C11: once a delete method has issued its DELETE, the answer is mapped   *)
(* by status: 204 gives success with '<key> Deleted Successfully', 404     *)
(* gives '<key> not found' with error 404, any other status with an error  *)
(* envelope gives the first title and that status.                         *)
(***************************************************************************)
C11_DeleteMapping ==
    (/\ method.family = "delete"
     /\ Len(replies) = 2
     /\ replies[2].transport = "ok")
    => /\ replies[2].status = 204 =>
             /\ Returned
             /\ result.success = TRUE
             /\ result.response =
                    StrResp(KeyOf(method, args) \o <<" Deleted Successfully">>)
             /\ result.error = ErrEmpty
       /\ replies[2].status = 404 => IsNotFoundResult
       /\ (replies[2].status \notin {204, 404} /\ ErrorReply(2))
             => IsTitleFailure(2)

\* A DELETE answered 404 after the resolve found the resource.
C11_Witness ==
    /\ method.family = "delete"
    /\ Len(replies) = 2
    /\ requests[2].verb = "DELETE"
    /\ replies[2].transport = "ok"
    /\ replies[2].status = 404
    /\ pc = "done"

(***************************************************************************)
(* C12: an add method (add_endpoint with a MAC that passes _mac_test,      *)
(* add_user, add_device) issues exactly one request, a POST; 201 gives     *)
(* success with '<name> Added Successfully', any other status with an      *)
(* error envelope gives the first title and that status.                   *)
(***************************************************************************)
C12_AddMapping ==
    (method.family = "add" /\ raised # "InvalidMacAddress") =>
        /\ Len(requests) = 1
        /\ requests[1].verb = "POST"
        /\ requests[1].path = method.path
        /\ (Len(replies) = 1 /\ replies[1].transport = "ok") =>
              /\ replies[1].status = 201 =>
                    /\ Returned
                    /\ result.success = TRUE
                    /\ result.response =
                           StrResp(args.key \o <<" Added Successfully">>)
                    /\ result.error = ErrEmpty
              /\ (replies[1].status # 201 /\ ErrorReply(1))
                    => IsTitleFailure(1)

\* An add_endpoint call refused by the appliance with an error envelope.
C12_Witness ==
    /\ method.name = "add_endpoint"
    /\ ErrorReply(1)
    /\ replies[1].status = 500
    /\ pc = "done"

(***************************************************************************)
(* C13 (as claimed): _mac_test accepts a string exactly when, uppercased,  *)
(* it is six pairs of hex digits joined by colons and nothing else: a      *)
(* MAC-validating method raises InvalidMacAddress for every other string,  *)
(* one with extra leading or trailing characters included.                 *)
(***************************************************************************)
IsExactMac(mac) ==
    /\ Len(mac) = 17
    /\ \A i \in 1..17 :
          IF i % 3 = 0
          THEN upper(mac)[i] = ":"
          ELSE upper(mac)[i] \in {"0", "1", "2", "3", "4", "5", "6", "7",
                                  "8", "9", "A", "B", "C", "D", "E", "F"}

C13_MacTestExact ==
    (method.validates /\ pc # "idle") =>
        ((raised # "InvalidMacAddress") <=> IsExactMac(args.mac))

(***************************************************************************)
(* C14 (as claimed): a call whose request timed out, could not connect or  *)
(* was answered with a body that is not JSON ends without an exception;    *)
(* when no response arrived it returns a result with success false.        *)
(***************************************************************************)
C14_TransportFailureReturned ==
    (/\ pc = "done"
     /\ Len(replies) >= 1
     /\ \/ replies[Len(replies)].transport # "ok"
        \/ replies[Len(replies)].body.top = "")
    => /\ raised = ""
       /\ replies[Len(replies)].transport # "ok" => result.success = FALSE

(***************************************************************************)
(* C15: a call issues at most two requests, the second only after the      *)
(* first was answered, and is over once every request it issued was        *)
(* answered; no request exists before the first call.                      *)
(***************************************************************************)
C15_AtMostTwoRoundTrips ==
    /\ Len(requests) <= 2
    /\ Len(replies) <= Len(requests)
    /\ Len(requests) <= Len(replies) + 1
    /\ pc = "idle" => requests = <<>>
    /\ pc = "wait" => Len(requests) = Len(replies) + 1
    /\ pc = "done" => Len(requests) = Len(replies)

\* A call over after two round trips, and one over after none.
C15_Witness ==
    /\ pc = "done"
    /\ \/ Len(requests) = 2 /\ Len(replies) = 2
       \/ Len(requests) = 0 /\ raised = "InvalidMacAddress"

(***************************************************************************)
(* C17 (as claimed): every request a method issues is given the timeout    *)
(* configured at construction.                                             *)
(***************************************************************************)
C17_EveryRequestHasTimeout ==
    \A i \in 1..Len(requests) : requests[i].timeout = TRUE

(***************************************************************************)
(* C18: the list, get and search methods issue GET requests only; a delete *)
(* call that has not passed its resolve step has issued no DELETE and no   *)
(* POST, and an add call refused for its MAC has issued no request.        *)
(***************************************************************************)
C18_ReadsDoNotMutate ==
    /\ method.family \in {"list", "counted", "paged", "fetch", "resolve_fetch"}
          => \A i \in 1..Len(requests) : requests[i].verb = "GET"
    /\ (method.family = "delete" /\ Len(replies) <= 1 /\ pc = "done")
          => \A i \in 1..Len(requests) : requests[i].verb = "GET"
    /\ (method.family = "add" /\ raised = "InvalidMacAddress")
          => requests = <<>>

\* A get-by-name call that has issued both of its requests.
C18_Witness ==
    /\ method.family = "resolve_fetch"
    /\ Len(requests) = 2
    /\ pc = "done"

(***************************************************************************)
(* C16 (as claimed): the pagination loop of the script, run against an     *)
(* appliance that serves a group of any size (0 and 1 included), never     *)
(* ends with an exception; it asks for the pages 1, 2, ... in increasing   *)
(* order, each once, asks again only after a result whose next is true,    *)
(* and every result it receives holds the next and total keys it reads.    *)
(***************************************************************************)
C16_LoopTerminatesNormally ==
    /\ tool.exc = ""
    /\ tool.pc # "crashed"
    /\ \A i \in 1..Len(tool.asked) : tool.asked[i] = i
    /\ (tool.pc = "calling" /\ Len(tool.asked) > 1) => tool.res.next = TRUE
    /\ (tool.pc = "calling" /\ pc = "done") =>
          /\ raised = ""
          /\ {"next", "total"} \subseteq result.keys

====
